---- MODULE Spec2Model ----
(***************************************************************************)
(* A model of win_asyncio_afunix.py: the AF_UNIX address encoding, the     *)
(* AFUnixStream endpoint, the AFUnixServerWin accept loop and the          *)
(* open_unix_connection_win connector, together with the parts of Winsock  *)
(* (event objects, WSAEventSelect records, the accept queue) and of the    *)
(* asyncio proactor (wait_for_handle) that the code drives.                *)
(***************************************************************************)
EXTENDS Integers, Sequences, FiniteSets, TLC

\* ---------------------------------------------------------------- constants
SUN_PATH_MAX == 108
UNIX_PATH_MAX == 108
FD_ACCEPT == 8
FD_CONNECT == 16
FD_CLOSE == 32
WSAEWOULDBLOCK == 10035

\* Winsock error codes the environment reports (not named in the source).
WSAECONNREFUSED == 10061
WSAENOTSOCK == 10038

\* ------------------------------------------------------------------- bounds
\* Paths are tried up to SUN_PATH_MAX + PathOver bytes.
PathOver == 2
\* A path holds at most this many two-byte characters.
MaxWide == 1
\* Clients that connect to the listener.
MaxConns == 3
\* Bytes a stream passes to its socket.
MaxSend == 1

\* ------------------------------------------------------------ address codec
\* Code points of the characters paths are built from: "a" and "e-acute".
AsciiChar == 97
WideChar == 233

\* str.encode("utf-8") of one code point below 2048.
Utf8Char(c) ==
  IF c < 128 THEN <<c>> ELSE <<192 + (c \div 64), 128 + (c % 64)>>

RECURSIVE Utf8(_)
\* str.encode("utf-8"): the concatenation of the characters' encodings
\* (computed by halves, which keeps the recursion shallow).
Utf8(s) ==
  IF s = <<>> THEN <<>>
  ELSE IF Len(s) = 1 THEN Utf8Char(s[1])
  ELSE LET h == Len(s) \div 2 IN
       Utf8(SubSeq(s, 1, h)) \o Utf8(SubSeq(s, h + 1, Len(s)))

\* A path of n one-byte characters followed by w two-byte characters.
MkPath(n, w) ==
  [i \in 1..(n + w) |-> IF i <= n THEN AsciiChar ELSE WideChar]

ShortPath == MkPath(3, 0)
LongPath == MkPath(SUN_PATH_MAX, 0)

\* The mutation of EncodeSunPath that compares with > instead of >=.
EncodeSunPathOffByOne(path) ==
  LET enc == Utf8(path) IN
  IF Len(enc) > SUN_PATH_MAX
    THEN [err |-> "ValueError", sun_path |-> <<>>]
    ELSE [err |-> "none",
          sun_path |-> [i \in 1..SUN_PATH_MAX |->
                          IF i <= Len(enc) THEN enc[i] ELSE 0]]

\* Sockaddr.sun_path as __init__ and open_unix_connection_win fill it:
\* the encoded path over a zeroed buffer, or ValueError when it does not fit.
EncodeSunPath(path) ==
  LET enc == Utf8(path) IN
  IF Len(enc) >= SUN_PATH_MAX
    THEN [err |-> "ValueError", sun_path |-> <<>>]
    ELSE [err |-> "none",
          sun_path |-> [i \in 1..SUN_PATH_MAX |->
                          IF i <= Len(enc) THEN enc[i] ELSE 0]]

\* The bytes of a buffer up to its first NUL: what the OS reads as the path.
CString(buf) ==
  LET nuls == {i \in 1..Len(buf) : buf[i] = 0} IN
  IF nuls = {} THEN buf
  ELSE SubSeq(buf, 1, (CHOOSE i \in nuls : \A j \in nuls : i <= j) - 1)

\* lNetworkEvents & flag
HasFlag(mask, flag) == (mask \div flag) % 2 = 1
\* mask | flag
WithFlag(mask, flag) == IF HasFlag(mask, flag) THEN mask ELSE mask + flag

\* ---------------------------------------------------------------- variables
VARIABLES
  hasProactor,   \* the running loop has a _proactor attribute
  addrSite,      \* which call site encoded an address last
  addrIn,        \* the path given to it
  addrOut,       \* the Sockaddr.sun_path it built, or the error
  streams,       \* the AFUnixStream objects created, in creation order
  lastOp,        \* the last call made on a stream and how it ended
  fsEntry,       \* a filesystem entry exists at the server's path
  fsOwner,       \* whose bind made that entry: "none", "stale" (a listener
                 \* that is gone), "srv", "other"
  srvPath,       \* self.path
  ctorUnlinked,  \* __init__ called os.unlink(path)
  otherPhase,    \* a second AFUnixServerWin on the same path: "none", "live",
                 \* "ctorFailed", "closed"
  otherUnlink,   \* its unlink_existing
  srvPhase,      \* AFUnixServerWin(...): "none", "constructed", "ctorFailed"
  ctorErr,       \* what __init__ raised
  srvUnlink,     \* self.unlink_existing
  srvClosed,     \* self._closed
  srvSock,       \* self.sock: "none", "open", "closed"
  srvListening,  \* self.sock is bound and listening
  srvEvent,      \* self._accept_event: "none", "alive", "closed"
  startResult,   \* how the last start() ended
  evSet,         \* the accept event object is signalled
  netEvents,     \* the network events Winsock has recorded for self.sock
  acceptArmed,   \* Winsock will record the next FD_ACCEPT
  acceptQueue,   \* the connections waiting in the native accept queue
  nextConn,      \* the handle the next connecting client gets
  loopPc,        \* self._task: "none", "created", "waiting", "draining",
                 \* "done", "failed"
  loopErr,       \* the exception the task ended with
  waitFate,      \* what becomes of a wait whose event handle was closed
  handlerKind,   \* client_connected_cb: "async" (a coroutine function) or "sync"
  acceptLog,     \* the handles ws2_32.accept returned, in order
  dispatched,    \* the calls of client_connected_cb, in order
  closedByLoop,  \* the streams the accept loop closed itself
  wcPc,          \* a caller of wait_closed(): "idle", "waiting", "returned"
  nTasks,        \* the accept-loop tasks start() has created
  waitsOut,      \* the waits registered on the accept event and not resolved
  cliPc,         \* open_unix_connection_win: "idle", "waiting", "returned",
                 \* "raised"
  cliSock,       \* its sock: "none", "open", "closed"
  cliEvent,      \* its connect_event: "none", "alive", "closed"
  cliErr,        \* the exception it raised, and the step that raised it
  cliConn,       \* the native connect: "none", "inprogress", "connected",
                 \* "refused", "aborted", "reset"
  cliEvSet,      \* the connect event object is signalled
  cliNet,        \* the network events Winsock has recorded for sock
  cliConnErr,    \* iErrorCode[FD_CONNECT_BIT] of that record
  wusPhase,      \* WindowsUnixServer: "none", "constructed", "ctorFailed",
                 \* "started", "startFailed"
  wusPath,       \* self.path
  wusRunning,    \* self._running
  wusSock,       \* self._sock: "none", "open", "closed"
  wusTask,       \* self._task: "none", "created", "waitEvent", "sleepRetry",
                 \* "sleepYield", "connecting", "done", "failed", "cancelled"
  wusCancel,     \* cancel() was called on the task and not yet delivered
  wusClosePc,    \* a caller of close(): "idle", "awaiting", "returned",
                 \* "raised"
  wusQueue,      \* the connections waiting in the accept queue of self._sock
  wusTaken       \* the connections ws2_32.accept has taken from it

codecVars == <<addrSite, addrIn, addrOut>>
streamVars == <<streams, lastOp>>
srvVars == <<fsEntry, srvPhase, ctorErr, srvUnlink, srvClosed, srvSock,
             srvListening, srvEvent, startResult, fsOwner, srvPath,
             ctorUnlinked, otherPhase, otherUnlink>>
netVars == <<evSet, netEvents, acceptArmed, acceptQueue, nextConn>>
loopVars == <<loopPc, loopErr, waitFate, handlerKind, acceptLog, dispatched,
              closedByLoop, wcPc, nTasks, waitsOut>>
serverVars == <<srvVars, netVars, loopVars>>
connVars == <<cliPc, cliSock, cliEvent, cliErr, cliConn, cliEvSet, cliNet,
              cliConnErr>>
wusVars == <<wusPhase, wusPath, wusRunning, wusSock, wusTask, wusCancel,
             wusClosePc, wusQueue, wusTaken>>
vars == <<hasProactor, codecVars, streamVars, serverVars, connVars, wusVars>>

AllPaths ==
  {MkPath(n, w) : n \in 0..(SUN_PATH_MAX + PathOver), w \in 0..MaxWide}

NoOp == [op |-> "none", stream |-> 0, wasClosed |-> FALSE, shutdown |-> "none",
         result |-> "none"]

InitCodec ==
  /\ addrSite = "none"
  /\ addrIn = <<>>
  /\ addrOut = [err |-> "none", sun_path |-> <<>>]

InitStreams ==
  /\ streams = <<>>
  /\ lastOp = NoOp

InitServer ==
  /\ fsEntry \in BOOLEAN
  /\ fsOwner = IF fsEntry THEN "stale" ELSE "none"
  /\ srvPath = <<>>
  /\ ctorUnlinked = FALSE
  /\ otherPhase = "none"
  /\ otherUnlink = FALSE
  /\ srvPhase = "none"
  /\ ctorErr = "none"
  /\ srvUnlink = FALSE
  /\ srvClosed = FALSE
  /\ srvSock = "none"
  /\ srvListening = FALSE
  /\ srvEvent = "none"
  /\ startResult = "none"
  /\ evSet = FALSE
  /\ netEvents = 0
  /\ acceptArmed = FALSE
  /\ acceptQueue = <<>>
  /\ nextConn = 1
  /\ loopPc = "none"
  /\ nTasks = 0
  /\ waitsOut = 0
  /\ loopErr = "none"
  /\ waitFate = "live"
  /\ handlerKind = "none"
  /\ acceptLog = <<>>
  /\ dispatched = <<>>
  /\ closedByLoop = {}
  /\ wcPc = "idle"

NoErr == [src |-> "none", kind |-> "none", code |-> 0]

InitConn ==
  /\ cliPc = "idle"
  /\ cliSock = "none"
  /\ cliEvent = "none"
  /\ cliErr = NoErr
  /\ cliConn = "none"
  /\ cliEvSet = FALSE
  /\ cliNet = 0
  /\ cliConnErr = 0

InitWus ==
  /\ wusPhase = "none"
  /\ wusPath = <<>>
  /\ wusRunning = FALSE
  /\ wusSock = "none"
  /\ wusTask = "none"
  /\ wusCancel = FALSE
  /\ wusClosePc = "idle"
  /\ wusQueue = 0
  /\ wusTaken = 0

Init ==
  /\ hasProactor \in BOOLEAN
  /\ InitCodec
  /\ InitStreams
  /\ InitServer
  /\ InitConn
  /\ InitWus

\* ------------------------------------------------------------- CodecSpec
\* AFUnixServerWin.__init__, the address it hands to ws2_32.bind.
EncodeForBind(path) ==
  /\ addrSite = "none"
  /\ addrSite' = "bind"
  /\ addrIn' = path
  /\ addrOut' = EncodeSunPath(path)
  /\ UNCHANGED <<hasProactor, wusVars, streamVars, serverVars, connVars>>

\* open_unix_connection_win, the address it hands to ws2_32.connect.
EncodeForConnect(path) ==
  /\ addrSite = "none"
  /\ addrSite' = "connect"
  /\ addrIn' = path
  /\ addrOut' = EncodeSunPath(path)
  /\ UNCHANGED <<hasProactor, wusVars, streamVars, serverVars, connVars>>

\* The address is a local of the call: it is gone when the call is over.
AddrDropped ==
  /\ addrSite # "none"
  /\ addrSite' = "none"
  /\ addrIn' = <<>>
  /\ addrOut' = [err |-> "none", sun_path |-> <<>>]
  /\ UNCHANGED <<hasProactor, wusVars, streamVars, serverVars, connVars>>

CodecNext ==
  \/ \E p \in AllPaths : EncodeForBind(p)
  \/ \E p \in AllPaths : EncodeForConnect(p)
  \/ AddrDropped

CodecSpec == Init /\ [][CodecNext]_vars

\* ------------------------------------------------------------ AFUnixStream
\* AFUnixStream.__init__ over socket handle h.
NewStream(h) ==
  [sock |-> h, closed |-> FALSE, sockOpen |-> TRUE,
   nShutdown |-> 0, nSockClose |-> 0, sent |-> 0]

\* The mutation of StreamCloseOp without the try/except around shutdown.
StreamCloseNoSwallow(st, shutdownOk) ==
  IF st.closed
    THEN [st |-> st, exc |-> "none"]
    ELSE IF shutdownOk
      THEN [st |-> [st EXCEPT !.nShutdown = @ + 1, !.nSockClose = @ + 1,
                              !.sockOpen = FALSE, !.closed = TRUE],
            exc |-> "none"]
      ELSE [st |-> [st EXCEPT !.nShutdown = @ + 1], exc |-> "OSError"]

\* The mutation of StreamCloseOp without the "if not self._closed" guard.
StreamCloseUnguarded(st, shutdownOk) ==
  [st |-> [st EXCEPT !.nShutdown = @ + 1, !.nSockClose = @ + 1,
                     !.sockOpen = FALSE, !.closed = TRUE],
   exc |-> "none"]

\* AFUnixStream.close: shutdown (an OSError of it is swallowed), sock.close(),
\* _closed = True; nothing at all when _closed is already set.
StreamCloseOp(st, shutdownOk) ==
  IF st.closed
    THEN [st |-> st, exc |-> "none"]
    ELSE [st |-> [st EXCEPT !.nShutdown = @ + 1, !.nSockClose = @ + 1,
                            !.sockOpen = FALSE, !.closed = TRUE],
          exc |-> "none"]

\* The mutation of StreamSendallOp without the "if self._closed" test.
StreamSendallUnchecked(st, sockOk) ==
  IF st.sockOpen /\ sockOk
    THEN [st |-> [st EXCEPT !.sent = @ + 1], exc |-> "none"]
    ELSE [st |-> [st EXCEPT !.sent = @ + 1], exc |-> "OSError"]

\* AFUnixStream.sendall: RuntimeError when closed, else loop.sock_sendall,
\* which hands the bytes to the socket and may fail with OSError.
StreamSendallOp(st, sockOk) ==
  IF st.closed
    THEN [st |-> st, exc |-> "RuntimeError"]
    ELSE IF sockOk
      THEN [st |-> [st EXCEPT !.sent = @ + 1], exc |-> "none"]
      ELSE [st |-> [st EXCEPT !.sent = @ + 1], exc |-> "OSError"]

\* AFUnixStream.recv: b"" when closed, else loop.sock_recv, which returns
\* data, b"" at the peer's shutdown, or fails with OSError.
StreamRecvOp(st, sockResult) ==
  IF st.closed
    THEN [st |-> st, exc |-> "none", data |-> "empty"]
    ELSE [st |-> st,
          exc |-> IF sockResult = "OSError" THEN "OSError" ELSE "none",
          data |-> IF sockResult = "OSError" THEN "none" ELSE sockResult]

\* AFUnixStream(sock, loop) on a connected socket the caller owns.
StreamNew ==
  /\ Len(streams) < MaxConns
  /\ streams' = Append(streams, NewStream(Len(streams) + 1))
  /\ lastOp' = NoOp
  /\ UNCHANGED <<hasProactor, wusVars, codecVars, serverVars, connVars>>

StreamClose(i, shutdownOk) ==
  LET r == StreamCloseOp(streams[i], shutdownOk) IN
  /\ streams' = [streams EXCEPT ![i] = r.st]
  /\ lastOp' = [op |-> "close", stream |-> i, wasClosed |-> streams[i].closed,
                shutdown |-> IF streams[i].closed THEN "none"
                             ELSE IF shutdownOk THEN "ok" ELSE "OSError",
                result |-> r.exc]
  /\ UNCHANGED <<hasProactor, wusVars, codecVars, serverVars, connVars>>

StreamSendall(i, sockOk) ==
  LET r == StreamSendallOp(streams[i], sockOk) IN
  /\ streams[i].sent < MaxSend
  /\ streams' = [streams EXCEPT ![i] = r.st]
  /\ lastOp' = [op |-> "sendall", stream |-> i, wasClosed |-> streams[i].closed,
                shutdown |-> "none", result |-> r.exc]
  /\ UNCHANGED <<hasProactor, wusVars, codecVars, serverVars, connVars>>

StreamRecv(i, sockResult) ==
  LET r == StreamRecvOp(streams[i], sockResult) IN
  /\ streams' = [streams EXCEPT ![i] = r.st]
  /\ lastOp' = [op |-> "recv", stream |-> i, wasClosed |-> streams[i].closed,
                shutdown |-> "none",
                result |-> IF r.exc # "none" THEN r.exc ELSE r.data]
  /\ UNCHANGED <<hasProactor, wusVars, codecVars, serverVars, connVars>>

StreamNext ==
  \/ StreamNew
  \/ \E i \in DOMAIN streams, ok \in BOOLEAN : StreamClose(i, ok)
  \/ \E i \in DOMAIN streams, ok \in BOOLEAN : StreamSendall(i, ok)
  \/ \E i \in DOMAIN streams, r \in {"data", "empty", "OSError"} : StreamRecv(i, r)

StreamSpec == Init /\ [][StreamNext]_vars

\* --------------------------------------------------------- AFUnixServerWin
\* The mutation of UnlinkExisting that leaves the path as it found it.
UnlinkExistingSkipped(unlink, exists) == exists

\* "if unlink_existing and os.path.exists(path): os.unlink(path)": whether an
\* entry is left at the path afterwards. Nothing is asked about whose entry
\* it is.
UnlinkExisting(unlink, exists) ==
  IF unlink /\ exists THEN FALSE ELSE exists

\* AFUnixServerWin.__init__: unlink, socket, encode, bind, listen,
\* WSACreateEvent, WSAEventSelect. What it acquired before it raises stays
\* acquired: no except clause releases it.
SrvConstruct(path, unlink, evCreateOk, evSelectOk) ==
  /\ srvPhase = "none"
  /\ LET atPath == path = ShortPath /\ fsEntry
         fsLeft == IF atPath THEN UnlinkExisting(unlink, fsEntry) ELSE fsEntry
         inUse == path = ShortPath /\ fsLeft
         a == EncodeSunPath(path)
         err == IF a.err # "none" THEN "ValueError"
                ELSE IF inUse THEN "OSError(bind)"
                ELSE IF ~evCreateOk THEN "OSError(WSACreateEvent)"
                ELSE IF ~evSelectOk THEN "OSError(WSAEventSelect)"
                ELSE "none"
         bound == a.err = "none" /\ ~inUse
     IN
     /\ ctorErr' = err
     /\ srvPhase' = IF err = "none" THEN "constructed" ELSE "ctorFailed"
     /\ srvUnlink' = unlink
     /\ srvSock' = "open"
     /\ srvListening' = bound
     /\ fsEntry' = IF bound THEN TRUE ELSE fsLeft
     /\ fsOwner' = IF bound THEN "srv" ELSE IF fsLeft THEN fsOwner ELSE "none"
     /\ srvPath' = path
     /\ ctorUnlinked' = (atPath /\ ~fsLeft)
     /\ srvEvent' = IF bound /\ evCreateOk THEN "alive" ELSE "none"
     /\ acceptArmed' = (err = "none")
  /\ UNCHANGED <<srvClosed, startResult, evSet, netEvents, acceptQueue, nextConn>>
  /\ UNCHANGED <<otherPhase, otherUnlink>>
  /\ UNCHANGED <<hasProactor, wusVars, codecVars, streamVars, loopVars, connVars>>

\* The mutation of StartAllowed that starts a loop whenever it is asked to.
StartAllowedAlways(task) == TRUE

\* "if self._task is not None: raise RuntimeError".
StartAllowed(task) == task = "none"

\* AFUnixServerWin.start: RuntimeError when a task exists, else create_task.
SrvStart(kind) ==
  /\ srvPhase = "constructed"
  /\ loopPc # "draining"
  /\ IF ~StartAllowed(loopPc)
       THEN /\ startResult' = "RuntimeError"
            /\ UNCHANGED <<loopPc, handlerKind, nTasks>>
       ELSE /\ startResult' = "returned"
            /\ loopPc' = "created"
            /\ handlerKind' = kind
            /\ nTasks' = nTasks + 1
  /\ UNCHANGED <<fsEntry, srvPhase, ctorErr, srvUnlink, srvClosed, srvSock,
                 srvListening, srvEvent, fsOwner, srvPath, ctorUnlinked,
                 otherPhase, otherUnlink>>
  /\ UNCHANGED <<loopErr, waitFate, acceptLog, dispatched, closedByLoop, wcPc,
                 waitsOut>>
  /\ UNCHANGED <<hasProactor, wusVars, codecVars, streamVars, netVars, connVars>>

\* A client's connect reaches the listening socket: the connection joins the
\* accept queue and Winsock records FD_ACCEPT and sets the event, once until
\* accept re-enables it.
ClientArrive ==
  /\ srvSock = "open"
  /\ srvListening
  /\ nextConn <= MaxConns
  /\ acceptQueue' = Append(acceptQueue, nextConn)
  /\ nextConn' = nextConn + 1
  /\ IF acceptArmed
       THEN /\ netEvents' = WithFlag(netEvents, FD_ACCEPT)
            /\ evSet' = TRUE
            /\ acceptArmed' = FALSE
       ELSE UNCHANGED <<netEvents, evSet, acceptArmed>>
  /\ UNCHANGED <<hasProactor, wusVars, codecVars, streamVars, srvVars, loopVars, connVars>>

\* The finally clause of _accept_loop: WSAResetEvent(self._accept_event).
LoopFinally == IF srvEvent = "alive" THEN FALSE ELSE evSet

\* The task's first run: the proactor test, the first "while not
\* self._closed", the first wait_for_handle.
LoopBegin ==
  /\ loopPc = "created"
  /\ IF ~hasProactor
       THEN /\ loopPc' = "failed"
            /\ loopErr' = "RuntimeError"
            /\ UNCHANGED evSet
       ELSE IF srvClosed
         THEN /\ loopPc' = "done"
              /\ evSet' = LoopFinally
              /\ UNCHANGED loopErr
         ELSE /\ loopPc' = "waiting"
              /\ UNCHANGED <<loopErr, evSet>>
  /\ waitsOut' = IF loopPc' = "waiting" THEN waitsOut + 1 ELSE waitsOut
  /\ UNCHANGED <<waitFate, handlerKind, acceptLog, dispatched, closedByLoop, wcPc,
                 nTasks>>
  /\ UNCHANGED <<netEvents, acceptArmed, acceptQueue, nextConn>>
  /\ UNCHANGED <<hasProactor, wusVars, codecVars, streamVars, srvVars, connVars>>

\* wait_for_handle resolves and the loop runs to the accept-all loop, to the
\* next wait or to its end: WSAEnumNetworkEvents, the FD_CLOSE and FD_ACCEPT
\* tests. After close() the socket and the event the query names are gone,
\* and the query fails.
LoopWake(enumOk) ==
  /\ loopPc = "waiting"
  /\ \/ waitFate = "live" /\ evSet
     \/ waitFate \in {"resume", "error"}
  /\ IF waitFate = "error" \/ srvSock # "open" \/ srvEvent # "alive" \/ ~enumOk
       THEN /\ loopPc' = "failed"
            /\ loopErr' = "OSError"
            /\ evSet' = LoopFinally
            /\ UNCHANGED netEvents
       ELSE /\ netEvents' = 0
            /\ evSet' = FALSE
            /\ UNCHANGED loopErr
            /\ loopPc' = IF HasFlag(netEvents, FD_CLOSE) THEN "done"
                         ELSE IF HasFlag(netEvents, FD_ACCEPT) THEN "draining"
                         ELSE IF srvClosed THEN "done"
                         ELSE "waiting"
  /\ waitsOut' = IF loopPc' = "waiting" THEN waitsOut ELSE waitsOut - 1
  /\ UNCHANGED <<waitFate, handlerKind, acceptLog, dispatched, closedByLoop, wcPc,
                 nTasks>>
  /\ UNCHANGED <<acceptArmed, acceptQueue, nextConn>>
  /\ UNCHANGED <<hasProactor, wusVars, codecVars, streamVars, srvVars, connVars>>

\* The mutation of InvokeHandler that calls client_connected_cb a second time
\* to make the task.
InvokeHandlerTwice(d, i, status) ==
  Append(Append(d, [stream |-> i, status |-> status]),
         [stream |-> i, status |-> status])

\* The mutation of InvokeHandler that puts the new call ahead of the calls
\* made before it.
InvokeHandlerAhead(d, i, status) ==
  <<[stream |-> i, status |-> status]>> \o d

\* res = client_connected_cb(stream), and create_task(res) for a coroutine.
InvokeHandler(d, i, status) ==
  Append(d, [stream |-> i, status |-> status])

\* The mutation of DispatchStatus that awaits the coroutine in the loop instead
\* of making a task of it.
DispatchStatusAwaited(kind, cbRaises) ==
  IF cbRaises THEN "failed" ELSE "done"

\* Where the handler stands when the loop goes on after the call: a coroutine
\* function returned a coroutine that create_task scheduled and nobody awaits;
\* a plain function has run to its end or raised.
DispatchStatus(kind, cbRaises) ==
  IF kind = "async" THEN "running"
  ELSE IF cbRaises THEN "failed" ELSE "done"

\* The mutation of AfterDrain that goes back to wait without the test of
\* self._closed.
AfterDrainUntested(closed) == "waiting"

\* Where the task goes when accept has reported INVALID_SOCKET: the break
\* leads to "while not self._closed", which ends the loop or waits again.
AfterDrain(closed) == IF closed THEN "done" ELSE "waiting"

\* One turn of the accept-all loop: ws2_32.accept; on INVALID_SOCKET back to
\* "while not self._closed"; else the socket object, the AFUnixStream and the
\* call of client_connected_cb, whose exception closes the stream and ends
\* the task.
LoopAccept(cbRaises, shutdownOk) ==
  /\ loopPc = "draining"
  /\ IF acceptQueue = <<>>
       THEN /\ acceptArmed' = TRUE
            /\ loopPc' = AfterDrain(srvClosed)
            /\ evSet' = IF srvClosed THEN LoopFinally ELSE evSet
            /\ UNCHANGED <<netEvents, acceptQueue, acceptLog, dispatched,
                           closedByLoop, loopErr, streams, lastOp>>
       ELSE LET fd == Head(acceptQueue)
                i == Len(streams) + 1
                raised == handlerKind = "sync" /\ cbRaises
                status == DispatchStatus(handlerKind, cbRaises)
                more == Tail(acceptQueue) # <<>>
                shut == StreamCloseOp(NewStream(fd), shutdownOk)
            IN
            /\ acceptQueue' = Tail(acceptQueue)
            /\ acceptLog' = Append(acceptLog, fd)
            /\ netEvents' = IF more THEN WithFlag(netEvents, FD_ACCEPT) ELSE netEvents
            /\ acceptArmed' = ~more
            /\ dispatched' = InvokeHandler(dispatched, i, status)
            /\ IF raised
                 THEN /\ streams' = Append(streams, shut.st)
                      /\ lastOp' = [op |-> "close", stream |-> i, wasClosed |-> FALSE,
                                    shutdown |-> IF shutdownOk THEN "ok" ELSE "OSError",
                                    result |-> shut.exc]
                      /\ closedByLoop' = closedByLoop \cup {i}
                      /\ loopPc' = "failed"
                      /\ loopErr' = "handler"
                      /\ evSet' = LoopFinally
                 ELSE /\ streams' = Append(streams, NewStream(fd))
                      /\ evSet' = (more \/ evSet)
                      /\ UNCHANGED <<lastOp, closedByLoop, loopPc, loopErr>>
  /\ waitsOut' = IF loopPc' = "waiting" THEN waitsOut + 1 ELSE waitsOut
  /\ UNCHANGED <<waitFate, handlerKind, wcPc, nextConn, nTasks>>
  /\ UNCHANGED <<hasProactor, wusVars, codecVars, srvVars, connVars>>

\* A handler task (the coroutine client_connected_cb returned) ends.
HandlerFinish(k, outcome) ==
  /\ loopPc # "draining"
  /\ dispatched[k].status = "running"
  /\ dispatched' = [dispatched EXCEPT ![k].status = outcome]
  /\ UNCHANGED <<loopPc, loopErr, waitFate, handlerKind, acceptLog, closedByLoop, wcPc,
                 nTasks, waitsOut>>
  /\ UNCHANGED <<hasProactor, wusVars, codecVars, streamVars, srvVars, netVars, connVars>>

\* AFUnixServerWin.close: _closed, sock.close(), WSACloseEvent, unlink. A wait
\* registered on the event is not cancelled; with its handle closed under it,
\* Windows leaves what happens to it undefined.
CloseBody ==
  /\ srvClosed' = TRUE
  /\ srvSock' = "closed"
  /\ srvListening' = FALSE
  /\ srvEvent' = IF srvEvent = "alive" THEN "closed" ELSE srvEvent
  /\ fsEntry' = IF srvUnlink THEN FALSE ELSE fsEntry
  /\ fsOwner' = IF srvUnlink THEN "none" ELSE fsOwner
  /\ acceptQueue' = <<>>
  /\ netEvents' = 0
  /\ acceptArmed' = FALSE
  /\ evSet' = FALSE
  /\ IF loopPc = "waiting" /\ waitFate = "live"
       THEN waitFate' \in IF evSet THEN {"resume"} ELSE {"never", "resume", "error"}
       ELSE UNCHANGED waitFate
  /\ UNCHANGED <<srvPhase, ctorErr, srvUnlink, startResult, nextConn>>
  /\ UNCHANGED <<srvPath, ctorUnlinked, otherPhase, otherUnlink>>
  /\ UNCHANGED <<loopPc, loopErr, handlerKind, acceptLog, dispatched, closedByLoop, wcPc,
                 nTasks, waitsOut>>
  /\ UNCHANGED <<hasProactor, wusVars, codecVars, streamVars, connVars>>

\* close() called by a task other than the accept task: the accept-all loop
\* has no await, so no such task runs while it is draining.
SrvClose ==
  /\ srvPhase = "constructed"
  /\ loopPc # "draining"
  /\ CloseBody

\* close() called by a plain-function client_connected_cb, inside the
\* accept-all loop, before it returns to the loop.
CloseFromHandler ==
  /\ loopPc = "draining"
  /\ handlerKind = "sync"
  /\ dispatched # <<>>
  /\ ~srvClosed
  /\ CloseBody

\* AFUnixServerWin.wait_closed up to its await: nothing to await without a
\* task.
WaitClosedCall ==
  /\ srvPhase = "constructed"
  /\ loopPc # "draining"
  /\ wcPc \in {"idle", "returned"}
  /\ wcPc' = IF loopPc = "none" THEN "returned" ELSE "waiting"
  /\ UNCHANGED <<loopPc, loopErr, waitFate, handlerKind, acceptLog, dispatched, closedByLoop,
                 nTasks, waitsOut>>
  /\ UNCHANGED <<hasProactor, wusVars, codecVars, streamVars, srvVars, netVars, connVars>>

\* asyncio.shield(self._task) completes with the task; its Exception is
\* swallowed.
WaitClosedReturn ==
  /\ wcPc = "waiting"
  /\ loopPc \in {"done", "failed"}
  /\ wcPc' = "returned"
  /\ UNCHANGED <<loopPc, loopErr, waitFate, handlerKind, acceptLog, dispatched, closedByLoop,
                 nTasks, waitsOut>>
  /\ UNCHANGED <<hasProactor, wusVars, codecVars, streamVars, srvVars, netVars, connVars>>

SrvPaths == {ShortPath, LongPath}

Next ==
  \/ \E p \in SrvPaths, u, c, e \in BOOLEAN : SrvConstruct(p, u, c, e)
  \/ \E k \in {"async", "sync"} : SrvStart(k)
  \/ ClientArrive
  \/ LoopBegin
  \/ \E ok \in BOOLEAN : LoopWake(ok)
  \/ \E r, ok \in BOOLEAN : LoopAccept(r, ok)
  \/ \E k \in DOMAIN dispatched, o \in {"done", "failed"} : HandlerFinish(k, o)
  \/ SrvClose
  \/ CloseFromHandler
  \/ WaitClosedCall
  \/ WaitClosedReturn

Spec == Init /\ [][Next]_vars

\* The event loop runs every task that is ready to run.
FairSpec ==
  /\ Spec
  /\ WF_vars(LoopBegin)
  /\ WF_vars(\E ok \in BOOLEAN : LoopWake(ok))
  /\ WF_vars(\E r, ok \in BOOLEAN : LoopAccept(r, ok))
  /\ WF_vars(WaitClosedReturn)

\* --------------------------------------------- two servers on one path
\* A second AFUnixServerWin is constructed on the same path, in this process
\* or another: the same unlink, bind and listen, with no lock and no test of
\* whether a listener is alive behind the entry.
OtherStart(unlink) ==
  /\ otherPhase = "none"
  /\ LET fsLeft == UnlinkExisting(unlink, fsEntry) IN
     /\ otherPhase' = IF fsLeft THEN "ctorFailed" ELSE "live"
     /\ fsEntry' = TRUE
     /\ fsOwner' = IF fsLeft THEN fsOwner ELSE "other"
  /\ otherUnlink' = unlink
  /\ UNCHANGED <<srvPhase, ctorErr, srvUnlink, srvClosed, srvSock, srvListening,
                 srvEvent, startResult, srvPath, ctorUnlinked>>
  /\ UNCHANGED <<hasProactor, wusVars, codecVars, streamVars, netVars, loopVars, connVars>>

\* close() of the second server.
OtherClose ==
  /\ otherPhase = "live"
  /\ otherPhase' = "closed"
  /\ fsEntry' = IF otherUnlink THEN FALSE ELSE fsEntry
  /\ fsOwner' = IF otherUnlink THEN "none" ELSE fsOwner
  /\ UNCHANGED <<srvPhase, ctorErr, srvUnlink, srvClosed, srvSock, srvListening,
                 srvEvent, startResult, srvPath, ctorUnlinked, otherUnlink>>
  /\ UNCHANGED <<hasProactor, wusVars, codecVars, streamVars, netVars, loopVars, connVars>>

PathNext ==
  \/ \E p \in SrvPaths, u, c, e \in BOOLEAN : SrvConstruct(p, u, c, e)
  \/ SrvClose
  \/ \E u \in BOOLEAN : OtherStart(u)
  \/ OtherClose
  \/ ClientArrive

PathSpec == Init /\ [][PathNext]_vars

\* ------------------------------------------------ open_unix_connection_win
\* A listener accepts connections at path.
ListenerUp(path) ==
  path = ShortPath /\ srvSock = "open" /\ srvListening /\ nextConn <= MaxConns

\* The mutation of CompletionError that never looks at iErrorCode.
CompletionErrorIgnored(events, code) == 0

\* The connect error open_unix_connection_win raises after the wait: the
\* FD_CONNECT error code when FD_CONNECT is among the events and it is not 0.
CompletionError(events, code) ==
  IF HasFlag(events, FD_CONNECT) /\ code # 0 THEN code ELSE 0

\* open_unix_connection_win up to its await: socket, WSACreateEvent,
\* WSAEventSelect, the address, ws2_32.connect, the proactor test. Each raise
\* passes the finally clause, which closes the event; sock.close() runs only
\* where the code calls it. Winsock records FD_CONNECT also for a connect that
\* succeeds at once.
ConnCall(path, evCreateOk, evSelectOk, immediate) ==
  /\ cliPc = "idle"
  /\ LET up == ListenerUp(path)
         a == EncodeSunPath(path)
         connErr == IF ~immediate THEN WSAEWOULDBLOCK
                    ELSE IF up THEN 0 ELSE WSAECONNREFUSED
         src == IF ~evCreateOk THEN "WSACreateEvent"
                ELSE IF ~evSelectOk THEN "WSAEventSelect"
                ELSE IF a.err # "none" THEN "path"
                ELSE IF connErr \notin {0, WSAEWOULDBLOCK} THEN "connect"
                ELSE IF ~hasProactor THEN "proactor"
                ELSE "none"
         called == src \in {"connect", "proactor", "none"}
         joins == called /\ immediate /\ up
     IN
     /\ cliErr' = [src |-> src,
                   kind |-> CASE src = "none" -> "none"
                              [] src = "path" -> "ValueError"
                              [] src = "proactor" -> "RuntimeError"
                              [] OTHER -> "OSError",
                   code |-> CASE src = "connect" -> connErr
                              [] src = "WSAEventSelect" -> WSAENOTSOCK
                              [] OTHER -> 0]
     /\ cliPc' = IF src = "none" THEN "waiting" ELSE "raised"
     /\ cliSock' = IF src \in {"none", "WSAEventSelect"} THEN "open" ELSE "closed"
     /\ cliEvent' = IF ~evCreateOk THEN "none"
                    ELSE IF src = "none" THEN "alive" ELSE "closed"
     /\ cliConn' = IF ~called THEN "none"
                   ELSE IF immediate THEN (IF up THEN "connected" ELSE "refused")
                   ELSE IF src = "proactor" THEN "aborted"
                   ELSE "inprogress"
     /\ cliNet' = IF joins THEN FD_CONNECT ELSE 0
     /\ cliEvSet' = (joins /\ src = "none")
     /\ cliConnErr' = 0
     /\ IF joins
          THEN /\ acceptQueue' = Append(acceptQueue, nextConn)
               /\ nextConn' = nextConn + 1
               /\ IF acceptArmed
                    THEN /\ netEvents' = WithFlag(netEvents, FD_ACCEPT)
                         /\ evSet' = TRUE
                         /\ acceptArmed' = FALSE
                    ELSE UNCHANGED <<netEvents, evSet, acceptArmed>>
          ELSE UNCHANGED netVars
  /\ UNCHANGED <<hasProactor, wusVars, codecVars, streamVars, srvVars, loopVars>>

\* Winsock completes a connect that was in progress: the connection joins the
\* listener's accept queue, or the connect is refused; FD_CONNECT is recorded
\* with the error code and the event is set.
KernelConnectDone ==
  /\ cliConn = "inprogress"
  /\ cliSock = "open"
  /\ LET up == ListenerUp(ShortPath) IN
     /\ cliConn' = IF up THEN "connected" ELSE "refused"
     /\ cliConnErr' = IF up THEN 0 ELSE WSAECONNREFUSED
     /\ cliNet' = WithFlag(cliNet, FD_CONNECT)
     /\ cliEvSet' = (cliEvent = "alive")
     /\ IF up
          THEN /\ acceptQueue' = Append(acceptQueue, nextConn)
               /\ nextConn' = nextConn + 1
               /\ IF acceptArmed
                    THEN /\ netEvents' = WithFlag(netEvents, FD_ACCEPT)
                         /\ evSet' = TRUE
                         /\ acceptArmed' = FALSE
                    ELSE UNCHANGED <<netEvents, evSet, acceptArmed>>
          ELSE UNCHANGED netVars
  /\ UNCHANGED <<cliPc, cliSock, cliEvent, cliErr>>
  /\ UNCHANGED <<hasProactor, wusVars, codecVars, streamVars, srvVars, loopVars>>

\* The other interest the call registered, FD_CLOSE, is what resolves the
\* wait: the attempt is torn down while the connect is in progress and Winsock
\* records FD_CLOSE with no FD_CONNECT.
ConnTornDown ==
  /\ cliPc = "waiting"
  /\ cliConn = "inprogress"
  /\ cliSock = "open"
  /\ cliEvent = "alive"
  /\ cliConn' = "reset"
  /\ cliNet' = WithFlag(cliNet, FD_CLOSE)
  /\ cliEvSet' = TRUE
  /\ UNCHANGED <<cliPc, cliSock, cliEvent, cliErr, cliConnErr>>
  /\ UNCHANGED <<hasProactor, wusVars, codecVars, streamVars, serverVars>>

\* The server side of the connection goes away: Winsock records FD_CLOSE.
PeerCloses ==
  /\ cliConn = "connected"
  /\ cliSock = "open"
  /\ cliEvent = "alive"
  /\ ~HasFlag(cliNet, FD_CLOSE)
  /\ cliNet' = WithFlag(cliNet, FD_CLOSE)
  /\ cliEvSet' = TRUE
  /\ UNCHANGED <<cliPc, cliSock, cliEvent, cliErr, cliConn, cliConnErr>>
  /\ UNCHANGED <<hasProactor, wusVars, codecVars, streamVars, serverVars>>

\* wait_for_handle resolves: WSAEnumNetworkEvents, the FD_CONNECT error test,
\* the AFUnixStream; the finally clause closes the event.
ConnResume(enumOk) ==
  /\ cliPc = "waiting"
  /\ cliEvSet
  /\ LET err == CompletionError(cliNet, cliConnErr) IN
     /\ cliEvent' = "closed"
     /\ cliEvSet' = FALSE
     /\ cliNet' = IF enumOk THEN 0 ELSE cliNet
     /\ IF ~enumOk
          THEN /\ cliPc' = "raised"
               /\ cliErr' = [src |-> "WSAEnumNetworkEvents", kind |-> "OSError",
                             code |-> WSAENOTSOCK]
               /\ UNCHANGED <<cliSock, streams>>
          ELSE IF err # 0
            THEN /\ cliPc' = "raised"
                 /\ cliErr' = [src |-> "completion", kind |-> "OSError", code |-> err]
                 /\ cliSock' = "closed"
                 /\ UNCHANGED streams
            ELSE /\ cliPc' = "returned"
                 /\ streams' = Append(streams, NewStream(0))
                 /\ UNCHANGED <<cliSock, cliErr>>
  /\ UNCHANGED <<cliConn, cliConnErr, lastOp>>
  /\ UNCHANGED <<hasProactor, wusVars, codecVars, serverVars>>

\* The await ends with an exception instead: the task is cancelled, or the
\* proactor's wait fails. The finally clause closes the event.
ConnWaitAborted(kind) ==
  /\ cliPc = "waiting"
  /\ cliPc' = "raised"
  /\ cliErr' = [src |-> "wait", kind |-> kind, code |-> 0]
  /\ cliEvent' = "closed"
  /\ cliEvSet' = FALSE
  /\ UNCHANGED <<cliSock, cliConn, cliNet, cliConnErr>>
  /\ UNCHANGED <<hasProactor, wusVars, codecVars, streamVars, serverVars>>

ConnNext ==
  \/ \E p \in SrvPaths, u, c, e \in BOOLEAN : SrvConstruct(p, u, c, e)
  \/ SrvClose
  \/ \E p \in SrvPaths, c, e, i \in BOOLEAN : ConnCall(p, c, e, i)
  \/ KernelConnectDone
  \/ ConnTornDown
  \/ PeerCloses
  \/ \E ok \in BOOLEAN : ConnResume(ok)
  \/ \E k \in {"CancelledError", "OSError"} : ConnWaitAborted(k)

ConnSpec == Init /\ [][ConnNext]_vars

\* Winsock completes every connect, and the event loop resumes the task whose
\* wait has resolved.
FairConnSpec ==
  /\ ConnSpec
  /\ WF_vars(KernelConnectDone)
  /\ WF_vars(\E ok \in BOOLEAN : ConnResume(ok))

\* -------------------------------------- WindowsUnixServer (win_unix_asyncio)
\* What the other modules' state does while a WindowsUnixServer acts; the
\* filesystem entry at the path is shared with them.
WusOthers == <<codecVars, streamVars, netVars, loopVars, connVars>>
WusSrvRest == <<srvPhase, ctorErr, srvUnlink, srvClosed, srvSock, srvListening,
                srvEvent, startResult, srvPath, ctorUnlinked, otherPhase,
                otherUnlink>>

\* WindowsUnixServer.__init__: RuntimeError for a loop without _proactor.
WusCtor(path) ==
  /\ wusPhase = "none"
  /\ wusPhase' = IF hasProactor THEN "constructed" ELSE "ctorFailed"
  /\ wusPath' = path
  /\ UNCHANGED <<wusRunning, wusSock, wusTask, wusCancel, wusClosePc, wusQueue,
                 wusTaken>>
  /\ UNCHANGED <<hasProactor, srvVars, WusOthers>>

\* WindowsUnixServer.start: unlink of what is at the path, the socket, the
\* length test, ws2_32.bind, listen, _running and the task.
WusStart(bindOk) ==
  /\ wusPhase = "constructed"
  /\ wusClosePc = "idle"
  /\ LET atPath == wusPath = ShortPath
         tooLong == Len(Utf8(wusPath)) >= UNIX_PATH_MAX
         ok == ~tooLong /\ bindOk
     IN
     /\ wusPhase' = IF ok THEN "started" ELSE "startFailed"
     /\ wusSock' = "open"
     /\ wusRunning' = ok
     /\ wusTask' = IF ok THEN "created" ELSE "none"
     /\ fsEntry' = IF ok THEN TRUE ELSE IF atPath THEN FALSE ELSE fsEntry
     /\ fsOwner' = IF ok THEN "wus" ELSE IF atPath THEN "none" ELSE fsOwner
  /\ UNCHANGED <<wusPath, wusCancel, wusClosePc, wusQueue, wusTaken>>
  /\ UNCHANGED <<hasProactor, WusSrvRest, WusOthers>>

\* A client's connect reaches the listening socket.
WusClientArrive ==
  /\ wusPhase = "started"
  /\ wusSock = "open"
  /\ wusQueue + wusTaken < MaxConns
  /\ wusQueue' = wusQueue + 1
  /\ UNCHANGED <<wusPhase, wusPath, wusRunning, wusSock, wusTask, wusCancel,
                 wusClosePc, wusTaken>>
  /\ UNCHANGED <<hasProactor, srvVars, WusOthers>>

\* The top of "while self._running" up to its await: the end of the loop, the
\* sleep of the retry when WSACreateEvent gave no event, or the wait on the
\* new event.
WusLoopTop(running, evOk) ==
  IF ~running THEN "done"
  ELSE IF ~evOk THEN "sleepRetry"
  ELSE "waitEvent"

\* The awaits at which _accept_loop can be suspended.
WusSuspended == {"created", "waitEvent", "sleepRetry", "sleepYield", "connecting"}

\* The task's first run.
WusTaskBegin(evOk) ==
  /\ wusTask = "created"
  /\ ~wusCancel
  /\ wusTask' = WusLoopTop(wusRunning, evOk)
  /\ UNCHANGED <<wusPhase, wusPath, wusRunning, wusSock, wusCancel, wusClosePc,
                 wusQueue, wusTaken>>
  /\ UNCHANGED <<hasProactor, srvVars, WusOthers>>

\* asyncio.sleep(0.1) of the retry, or asyncio.sleep(0) after an accept that
\* returned nothing, is over: continue.
WusSleepDone(evOk) ==
  /\ wusTask \in {"sleepRetry", "sleepYield"}
  /\ ~wusCancel
  /\ wusTask' = WusLoopTop(wusRunning, evOk)
  /\ UNCHANGED <<wusPhase, wusPath, wusRunning, wusSock, wusCancel, wusClosePc,
                 wusQueue, wusTaken>>
  /\ UNCHANGED <<hasProactor, srvVars, WusOthers>>

\* wait_for_handle ends: with an Exception, which breaks the loop; or with
\* the event signalled, and then WSAResetEvent, ws2_32.accept (nothing to
\* accept: sleep(0) and continue), the socket object (on failure CloseHandle
\* and continue) and the await of connect_accepted_socket.
WusWaitResolves(waitRaises, acceptOk, wrapOk, evOk) ==
  /\ wusTask = "waitEvent"
  /\ ~wusCancel
  /\ waitRaises \/ wusQueue > 0
  /\ IF waitRaises
       THEN /\ wusTask' = "done"
            /\ UNCHANGED <<wusQueue, wusTaken>>
       ELSE /\ wusQueue' = wusQueue - 1
            /\ wusTaken' = wusTaken + 1
            /\ wusTask' = IF ~acceptOk THEN "sleepYield"
                          ELSE IF ~wrapOk THEN WusLoopTop(wusRunning, evOk)
                          ELSE "connecting"
  /\ UNCHANGED <<wusPhase, wusPath, wusRunning, wusSock, wusCancel, wusClosePc>>
  /\ UNCHANGED <<hasProactor, srvVars, WusOthers>>

\* connect_accepted_socket ends: its Exception closes the client socket and
\* continues; else the StreamWriter and create_task(client_connected_cb(...)),
\* whose exception (a callback that raises when called, or that returns no
\* coroutine) is caught nowhere and ends the task.
WusConnected(connOk, cbRaises, evOk) ==
  /\ wusTask = "connecting"
  /\ ~wusCancel
  /\ wusTask' = IF connOk /\ cbRaises THEN "failed"
                ELSE WusLoopTop(wusRunning, evOk)
  /\ UNCHANGED <<wusPhase, wusPath, wusRunning, wusSock, wusCancel, wusClosePc,
                 wusQueue, wusTaken>>
  /\ UNCHANGED <<hasProactor, srvVars, WusOthers>>

\* The CancelledError of cancel() reaches the task at its await; no except
\* clause of the loop catches it (they catch Exception).
WusTaskCancelled ==
  /\ wusCancel
  /\ wusTask \in WusSuspended
  /\ wusTask' = "cancelled"
  /\ wusCancel' = FALSE
  /\ UNCHANGED <<wusPhase, wusPath, wusRunning, wusSock, wusClosePc, wusQueue,
                 wusTaken>>
  /\ UNCHANGED <<hasProactor, srvVars, WusOthers>>

\* How "await self._task" ends in close(): CancelledError is passed, the
\* exception of a task that failed is raised out of close().
WusAwaitTask(task) == IF task = "failed" THEN "raised" ELSE "returned"

\* close() after "await self._task": self._sock.close() and the unlink of the
\* path, when the await did not raise.
WusCloseTail(outcome) ==
  /\ wusClosePc' = outcome
  /\ IF outcome = "returned"
       THEN /\ wusSock' = IF wusSock = "none" THEN "none" ELSE "closed"
            /\ wusQueue' = 0
            /\ fsEntry' = IF wusPath = ShortPath THEN FALSE ELSE fsEntry
            /\ fsOwner' = IF wusPath = ShortPath THEN "none" ELSE fsOwner
       ELSE UNCHANGED <<wusSock, wusQueue, fsEntry, fsOwner>>

\* WindowsUnixServer.close up to its await, or to its end when there is no
\* task or the task is over: _running = False, cancel(), await self._task.
WusClose ==
  /\ wusPhase \in {"constructed", "started", "startFailed"}
  /\ wusClosePc \in {"idle", "returned", "raised"}
  /\ wusRunning' = FALSE
  /\ IF wusTask \in WusSuspended
       THEN /\ wusCancel' = TRUE
            /\ wusClosePc' = "awaiting"
            /\ UNCHANGED <<wusSock, wusQueue, fsEntry, fsOwner>>
       ELSE /\ WusCloseTail(WusAwaitTask(wusTask))
            /\ UNCHANGED wusCancel
  /\ UNCHANGED <<wusPhase, wusPath, wusTask, wusTaken>>
  /\ UNCHANGED <<hasProactor, WusSrvRest, WusOthers>>

\* "await self._task" ends and close() runs to its end.
WusCloseResume ==
  /\ wusClosePc = "awaiting"
  /\ wusTask \in {"done", "failed", "cancelled"}
  /\ WusCloseTail(WusAwaitTask(wusTask))
  /\ UNCHANGED <<wusPhase, wusPath, wusRunning, wusTask, wusCancel, wusTaken>>
  /\ UNCHANGED <<hasProactor, WusSrvRest, WusOthers>>

WusNext ==
  \/ \E p \in SrvPaths : WusCtor(p)
  \/ \E b \in BOOLEAN : WusStart(b)
  \/ WusClientArrive
  \/ \E e \in BOOLEAN : WusTaskBegin(e)
  \/ \E e \in BOOLEAN : WusSleepDone(e)
  \/ \E w, a, s, e \in BOOLEAN : WusWaitResolves(w, a, s, e)
  \/ \E c, r, e \in BOOLEAN : WusConnected(c, r, e)
  \/ WusTaskCancelled
  \/ WusClose
  \/ WusCloseResume

WusSpec == Init /\ [][WusNext]_vars

\* =================================================================== claims
\* C1: once close() has been called while the accept loop waits on the accept
\* event, the loop task ends, and a wait_closed() that waits for it returns.
C1_CloseUnblocksWait ==
  /\ (srvClosed /\ loopPc = "waiting") ~> (loopPc \in {"done", "failed"})
  /\ (srvClosed /\ wcPc = "waiting") ~> (wcPc = "returned")

\* C2: every handle accept returned is wrapped into exactly one stream, which
\* is passed to exactly one handler call: as many streams and handler calls as
\* accepted handles, in the same order, no handle in two streams and no stream
\* in two handler calls.
C2_EachAcceptOneEndpoint ==
  /\ Len(streams) = Len(acceptLog)
  /\ Len(dispatched) = Len(acceptLog)
  /\ \A i \in DOMAIN acceptLog :
       i \in DOMAIN streams /\ i \in DOMAIN dispatched =>
         streams[i].sock = acceptLog[i] /\ dispatched[i].stream = i
  /\ \A i, j \in DOMAIN streams : i # j => streams[i].sock # streams[j].sock
  /\ \A i, j \in DOMAIN dispatched :
       i # j => dispatched[i].stream # dispatched[j].stream
\* C2's case: every client that connected has been accepted and dispatched.
C2_Witness ==
  /\ Len(acceptLog) = MaxConns
  /\ Len(dispatched) = MaxConns
  /\ loopPc = "waiting"

\* C9 (the server half): without a proactor no start() returns a listener and
\* no accept task ends with the missing-proactor error unseen by the caller.
C9_NoProactorFailsFast ==
  ~hasProactor => startResult # "returned" /\ loopErr # "RuntimeError"

\* C10: a failed handler does not end the accept loop, and the loop closes no
\* stream it has passed to a handler.
C10_HandlerFailureContained ==
  /\ (\E k \in DOMAIN dispatched : dispatched[k].status = "failed")
       => loopErr # "handler"
  /\ \A k \in DOMAIN dispatched : dispatched[k].stream \notin closedByLoop

\* C3: every call of open_unix_connection_win that reaches its wait comes to
\* an end, and a call whose connect Winsock refused (no listener at the path)
\* ends, unless the wait or the event query failed first, by raising OSError
\* with the refusal's error code.
C3_RefusedRaisesCode ==
  (/\ cliPc \in {"returned", "raised"}
   /\ cliConn = "refused"
   /\ cliErr.src \notin {"wait", "WSAEnumNetworkEvents"})
  => /\ cliPc = "raised"
     /\ cliErr.kind = "OSError"
     /\ cliErr.code = WSAECONNREFUSED
C3_ConnectCompletes ==
  /\ (cliPc = "waiting") ~> (cliPc \in {"returned", "raised"})
  /\ []C3_RefusedRaisesCode
\* C3's case: the call waited, the connect was refused, and the call raised
\* the refusal.
C3_Witness ==
  /\ cliPc = "raised"
  /\ cliConn = "refused"
  /\ cliErr.src = "completion"
  /\ cliErr.code = WSAECONNREFUSED

\* C4: when open_unix_connection_win has raised, its socket and its event
\* have both been released.
C4_ErrorPathsRelease ==
  cliPc = "raised" => cliSock # "open" /\ cliEvent # "alive"

\* C5: a stream goes Open -> Closed one way only. The socket is shut down and
\* released exactly once, by the first close(); a close() of a closed stream
\* raises nothing and releases nothing; no call makes a closed stream open.
C5_StreamCounts ==
  \A i \in DOMAIN streams :
    /\ streams[i].nSockClose <= 1
    /\ streams[i].nShutdown <= 1
    /\ streams[i].closed <=> streams[i].nSockClose = 1
    /\ streams[i].closed <=> ~streams[i].sockOpen
C5_CloseOutcome ==
  lastOp.op = "close" => lastOp.result = "none" /\ streams[lastOp.stream].closed
C5_ClosedStays ==
  \A i \in DOMAIN streams :
    streams[i].closed =>
      /\ streams'[i].closed
      /\ streams'[i].nSockClose = streams[i].nSockClose
      /\ streams'[i].nShutdown = streams[i].nShutdown
C5_OpenClosedOneWay ==
  [](C5_StreamCounts /\ C5_CloseOutcome) /\ [][C5_ClosedStays]_vars
\* C5's case: close() was called on a stream that was closed already.
C5_Witness ==
  /\ lastOp.op = "close"
  /\ lastOp.wasClosed
  /\ streams[lastOp.stream].nSockClose = 1

\* C6: sendall on a closed stream raises the send-on-closed error
\* (RuntimeError) and hands no bytes to the socket.
C6_NoBytesWhenClosed ==
  \A i \in DOMAIN streams :
    streams[i].closed => streams'[i].sent = streams[i].sent
C6_SendOnClosedFails ==
  /\ [](lastOp.op = "sendall" /\ lastOp.wasClosed => lastOp.result = "RuntimeError")
  /\ [][C6_NoBytesWhenClosed]_vars
\* C6's case: sendall was called on a closed stream.
C6_Witness ==
  /\ lastOp.op = "sendall"
  /\ lastOp.wasClosed
  /\ lastOp.result = "RuntimeError"

\* C7: when shutdown fails inside close(), close() raises nothing, the socket
\* is released and the stream is Closed.
C7_ShutdownFailureSwallowed ==
  lastOp.op = "close" /\ lastOp.shutdown = "OSError" =>
    /\ lastOp.result = "none"
    /\ streams[lastOp.stream].closed
    /\ ~streams[lastOp.stream].sockOpen
    /\ streams[lastOp.stream].nSockClose = 1
\* C7's case: a close() whose shutdown step failed.
C7_Witness ==
  /\ lastOp.op = "close"
  /\ lastOp.shutdown = "OSError"
  /\ streams[lastOp.stream].closed

\* C8 as amended: encoding succeeds exactly when the path's UTF-8 length is at
\* most SUN_PATH_MAX - 1 (107) bytes, and then the buffer holds the whole
\* path, NUL-padded to SUN_PATH_MAX; from SUN_PATH_MAX bytes on it fails with
\* the path-too-long error. No path is truncated.
C8_EncodeFitsOrFails ==
  addrSite # "none" =>
    LET n == Len(Utf8(addrIn)) IN
    /\ n <= SUN_PATH_MAX - 1 =>
         /\ addrOut.err = "none"
         /\ Len(addrOut.sun_path) = SUN_PATH_MAX
         /\ CString(addrOut.sun_path) = Utf8(addrIn)
    /\ n >= SUN_PATH_MAX => addrOut.err = "ValueError"
\* C8's case: a path of exactly SUN_PATH_MAX - 1 bytes, with a two-byte
\* character in it, was encoded.
C8_Witness ==
  /\ addrSite = "connect"
  /\ Len(Utf8(addrIn)) = SUN_PATH_MAX - 1
  /\ Len(addrIn) < SUN_PATH_MAX - 1
  /\ addrOut.err = "none"
\* C8 as stated: success below SUN_PATH_MAX - 1 bytes, path-too-long from
\* SUN_PATH_MAX - 1 (107) bytes on.
C8_AsStated ==
  addrSite # "none" =>
    LET n == Len(Utf8(addrIn)) IN
    /\ n < SUN_PATH_MAX - 1 => addrOut.err = "none"
    /\ n >= SUN_PATH_MAX - 1 => addrOut.err = "ValueError"

C12_StaleFileRemovedBeforeBind ==
  [][(/\ srvPhase = "none" /\ srvPhase' # "none"
      /\ srvPath' = ShortPath /\ srvUnlink'
      /\ fsOwner = "stale"
      /\ ctorErr' \notin {"OSError(WSACreateEvent)", "OSError(WSAEventSelect)"})
     => /\ ctorErr' = "none"
        /\ srvPhase' = "constructed"
        /\ srvListening'
        /\ fsEntry' /\ fsOwner' = "srv"]_vars

\* The server was constructed with unlink_existing over a stale entry, which
\* it unlinked, and is listening.
C12_Witness ==
  /\ srvPhase = "constructed" /\ srvUnlink /\ ctorUnlinked
  /\ srvSock = "open" /\ srvListening
  /\ fsOwner = "srv"
  /\ otherPhase = "none"

\* C13: two servers constructed on one path are never both live listeners
\* bound to it.
C13_NoTwoLiveListeners ==
  ~(/\ srvSock = "open" /\ srvListening /\ srvPath = ShortPath
    /\ otherPhase = "live")

\* C14: once close() has returned, no entry is left at the path the listener
\* was bound to.
C14_ClosedPathGone ==
  (srvPhase = "constructed" /\ srvClosed) => ~fsEntry

\* The connections that are in seq.
InSeq(seq) == {seq[i] : i \in DOMAIN seq}

\* C15: while close() has not been called, every connection that enters the
\* accept queue of a started server on a proactor loop is accepted and
\* dispatched, unless a native call of the loop fails.
C15_QueuedIsAccepted ==
  \A c \in 1..MaxConns :
    (c \in InSeq(acceptQueue) /\ loopPc # "none" /\ hasProactor)
      ~> \/ c \in InSeq(acceptLog) /\ \E k \in DOMAIN dispatched :
                                         streams[dispatched[k].stream].sock = c
         \/ srvClosed
         \/ loopErr = "OSError"

\* C16: when ws2_32.connect returns 0, open_unix_connection_win does not wait
\* on the connect event: the call that connected at once does not go on to
\* wait_for_handle.
C16_ImmediateConnectSkipsWait ==
  [][(cliPc = "idle" /\ cliConn' = "connected") => cliPc' # "waiting"]_vars

\* The steps of the accept task: created, then waiting (Listening) and
\* draining in turn, then done or failed (Stopped).
LoopSteps ==
  {<<"none", "created">>,
   <<"created", "waiting">>, <<"created", "done">>, <<"created", "failed">>,
   <<"waiting", "draining">>, <<"waiting", "done">>, <<"waiting", "failed">>,
   <<"draining", "waiting">>, <<"draining", "done">>, <<"draining", "failed">>}

\* C17: the accept task moves only along Listening -> Draining -> Listening
\* ... -> Stopped; Stopped is terminal; after close() it issues no new wait
\* and does not go from a wait to the accept-all loop; and once it has stopped
\* or close() has been called, no connection is accepted and no handler is
\* dispatched.
C17_LoopStateMachine ==
  [][/\ loopPc' # loopPc => <<loopPc, loopPc'>> \in LoopSteps
     /\ loopPc \in {"done", "failed"} => loopPc' = loopPc
     /\ (srvClosed /\ loopPc' = "waiting") => loopPc = "waiting"
     /\ (srvClosed /\ loopPc = "waiting") => loopPc' # "draining"
     /\ (srvClosed \/ loopPc \in {"done", "failed"})
          => /\ acceptLog' = acceptLog
             /\ Len(dispatched') = Len(dispatched)
             /\ Len(streams') = Len(streams)]_vars

\* close() was called after the loop had accepted a connection, and the loop
\* has stopped from the accept-all loop.
C17_Witness ==
  /\ srvClosed
  /\ loopPc = "done"
  /\ acceptLog # <<>>

\* C18: at most one wait is outstanding on the accept event and at most one
\* accept-loop task exists; start() on a started server ends with
\* RuntimeError and leaves the task and its position alone; a task is created
\* only when there is none.
C18_SingleWaiter ==
  /\ [](waitsOut <= 1 /\ nTasks <= 1)
  /\ [][/\ (startResult' # startResult /\ startResult' = "RuntimeError")
           => (nTasks' = nTasks /\ loopPc' = loopPc /\ waitsOut' = waitsOut)
        /\ nTasks' # nTasks => (loopPc = "none" /\ nTasks = 0)
        /\ waitsOut' > waitsOut => waitsOut = 0]_vars

\* A second start() has failed, and the one loop waits again after a wait
\* that resolved and a drain.
C18_Witness ==
  /\ startResult = "RuntimeError"
  /\ nTasks = 1
  /\ loopPc = "waiting" /\ waitsOut = 1
  /\ acceptLog # <<>>

\* C19: when close() was called while the accept task had a wait outstanding
\* and the task has ended, it ended as on a closed signal, without an error.
C19_InterruptedWaitEndsQuietly ==
  (srvClosed /\ waitFate # "live" /\ loopPc \in {"done", "failed"})
    => (loopPc = "done" /\ loopErr = "none")

\* C20: the event registered on a socket is alive exactly while the socket is
\* open, for the listening socket of a constructed server and for the socket
\* of a connect call that has not failed.
C20_EventLivesWithSocket ==
  /\ srvPhase = "constructed" => (srvSock = "open" <=> srvEvent = "alive")
  /\ cliPc \in {"waiting", "returned"} => (cliSock = "open" <=> cliEvent = "alive")

C22_ReturnsOnlyIfConnected ==
  cliPc = "returned" => cliConn = "connected"

\* C23: close() removes the entry at its path only if its own bind made it:
\* with two servers on one path, no close() of one of them removes the entry
\* of the other while the other is a live listener.
C23_CloseKeepsOthersEntry ==
  [][/\ (/\ srvPhase = "constructed"
         /\ fsOwner = "other" /\ otherPhase = "live" /\ otherPhase' = "live")
        => fsOwner' = "other"
     /\ (/\ otherPhase = "live" /\ otherPhase' = "closed"
         /\ fsOwner = "srv" /\ srvSock = "open" /\ srvListening)
        => fsOwner' = "srv"]_vars

\* C24: whenever close() of a WindowsUnixServer has come to its end, it has
\* returned, the accept-loop task is over, the listening socket is closed and
\* no entry is left at the path.
C24_CloseReleasesAll ==
  wusClosePc \in {"returned", "raised"}
    => /\ wusClosePc = "returned"
       /\ wusTask \in {"none", "done", "failed", "cancelled"}
       /\ wusSock # "open"
       /\ wusPath = ShortPath => ~fsEntry

====
